---- MODULE Spec2Model ----
(***************************************************************************)
(* Deque<T> (Deque.h) on top of CircularBuffer<unique_ptr<FixedArray>>     *)
(* (CircularBuffer.h) and CachingAllocator<FixedArray>                     *)
(* (CachingAllocator.h).  Segments live in a heap of addresses; the ring   *)
(* buffer stores handles (owning pointers) to them.                        *)
(***************************************************************************)
EXTENDS Integers, Sequences, FiniteSets, TLC

\* ------------------------------------------------------------ bounds
\* Slots per segment.  The source computes max(ceil(4096 / sizeof(T)), 16);
\* the model scales it down, every segment-boundary case stays.
fixed_arr_n_elem == 2
\* Segment addresses the system allocator can hand out.
MaxSeg == 12
\* Pushes allowed after construction, per run.
MaxPush == 3
\* Runs from the long initializer list go deep instead of wide: pushes and
\* pop_front calls allowed after construction in those runs.
LongPush == 1
LongPopFront == 1
\* Longest initializer list for the runs with move operations.
MaxMoveInit == 2
\* Pushes allowed after construction in the runs with move operations.
MaxMovePush == 1
\* Move constructions and move assignments per run.
MaxMoves == 1
\* Pushes allowed after construction in the runs with writes through
\* operator[] and calls outside the preconditions.
MaxAccessPush == 1
\* A CircularBuffer used on its own is built with capacity 1..MaxRingCap,
\* with the default capacity, or with a capacity above the default that is
\* not a multiple of 4.
MaxRingCap == 1
\* Pushes on a CircularBuffer used on its own, per run.
MaxRingPush == 9
\* Pushes per run on a CircularBuffer built above the default capacity.
MaxBigRingPush == 3
\* A CachingAllocator used on its own is built with 0..MaxPoolReserve
\* blocks reserved and a max_reserve of 0..MaxPoolRetain.
MaxPoolReserve == 2
MaxPoolRetain == 2
\* Blocks a client of that allocator holds at a time.
MaxPoolHeld == 3
MaxVecPush == 9          \* the push_back calls of a run on the Vectors
MaxVecAssign == 1        \* the copy assignments of a run on the Vectors

\* ------------------------------------------------------------ program constants
min_cap == 8
initial_reserve == 5
max_reserve == 120
initial_capacity == 8    \* Vector::initial_capacity

Null == 0                 \* nullptr
Raw == 0                  \* element slot: storage without an object (zeroed bytes)
Moved == -1               \* element slot: a moved-from object, not yet destroyed
Values == {1, 2}          \* values of T
Addr == 1..MaxSeg
Deques == {"a", "b"}      \* the Deque objects of a run
SIZE_MOD == 2^30          \* size_t arithmetic wraps; any modulus far above every index behaves alike

Max(x, y) == IF x >= y THEN x ELSE y
Dec(x) == (x - 1) % SIZE_MOD     \* --x on a size_t

\* ------------------------------------------------------------ handles
\* unique_ptr<FixedArray, CachingAllocator&>: the pointer and the allocator
\* object its deleter refers to.
Handle(p, pl) == [ptr |-> p, del |-> pl]
NoSlot == [ptr |-> -1, del |-> "none"]      \* ring slot without an object

\* ------------------------------------------------------------ CircularBuffer
CB_new(cap) ==
    [data |-> [i \in 0..(cap - 1) |-> NoSlot], has_data |-> TRUE,
     begin_pos |-> 0, end_pos |-> 0, size_ |-> 0, capacity_ |-> cap]

\* A repack that copies the handles in reverse logical order.
CB_resize_reversed(cb, new_capacity) ==
    [cb EXCEPT !.data = [i \in 0..(new_capacity - 1) |->
                            IF i < cb.size_
                            THEN cb.data[(cb.begin_pos + (cb.size_ - 1 - i)) % cb.capacity_]
                            ELSE NoSlot],
               !.capacity_ = new_capacity, !.begin_pos = 0, !.end_pos = cb.size_]

CB_resize(cb, new_capacity) ==
    [cb EXCEPT !.data = [i \in 0..(new_capacity - 1) |->
                            IF i < cb.size_
                            THEN cb.data[(cb.begin_pos + i) % cb.capacity_]
                            ELSE NoSlot],
               !.capacity_ = new_capacity, !.begin_pos = 0, !.end_pos = cb.size_]

\* A grow by one slot instead of a doubling.
CB_resize_up_by_one(cb) == CB_resize(cb, cb.capacity_ + 1)

CB_resize_up(cb) == CB_resize(cb, Max(cb.capacity_ * 2, min_cap))

\* A shrink that halves the capacity whatever the minimum capacity is.
CB_resize_down_no_floor(cb) == CB_resize(cb, cb.capacity_ \div 2)

CB_resize_down(cb) == CB_resize(cb, Max(cb.capacity_ \div 2, min_cap))

CB_emplace_back_impl(cb, x) ==
    IF cb.size_ < cb.capacity_
    THEN [cb EXCEPT !.data[cb.end_pos] = x,
                    !.end_pos = (cb.end_pos + 1) % cb.capacity_,
                    !.size_ = @ + 1]
    ELSE LET r == CB_resize_up(cb)
         IN [r EXCEPT !.data[r.end_pos] = x, !.end_pos = r.end_pos + 1, !.size_ = @ + 1]

\* A push_front that stores the new handle at the back end.
CB_emplace_front_at_back(cb, x) == CB_emplace_back_impl(cb, x)

CB_emplace_front_impl(cb, x) ==
    IF cb.size_ < cb.capacity_
    THEN LET b == IF cb.begin_pos = 0 THEN cb.capacity_ - 1 ELSE cb.begin_pos - 1
         IN [cb EXCEPT !.begin_pos = b, !.data[b] = x, !.size_ = @ + 1]
    ELSE LET r == CB_resize_up(cb)
             b == r.capacity_ - 1
         IN [r EXCEPT !.begin_pos = b, !.data[b] = x, !.size_ = @ + 1]

\* A pop_back that returns the last handle and leaves it in the buffer.
CB_pop_back_keeps_handle(cb) ==
    [value |-> cb.data[IF cb.end_pos = 0 THEN cb.capacity_ - 1 ELSE cb.end_pos - 1], cb |-> cb]

\* A pop_back that shrinks as soon as the buffer is no more than half full.
CB_pop_back_shrinks_at_half(cb) ==
    LET e == IF cb.end_pos = 0 THEN cb.capacity_ - 1 ELSE cb.end_pos - 1
        c1 == [cb EXCEPT !.end_pos = e, !.data[e] = NoSlot, !.size_ = @ - 1]
    IN [value |-> cb.data[e],
        cb |-> IF c1.size_ <= c1.capacity_ \div 2 /\ c1.capacity_ > min_cap
               THEN CB_resize_down(c1) ELSE c1]

\* pop_back / pop_front past their assert(size_ > 0): the removed handle and the buffer left.
CB_pop_back(cb) ==
    LET e == IF cb.end_pos = 0 THEN cb.capacity_ - 1 ELSE cb.end_pos - 1
        c1 == [cb EXCEPT !.end_pos = e, !.data[e] = NoSlot, !.size_ = @ - 1]
    IN [value |-> cb.data[e],
        cb |-> IF c1.size_ < c1.capacity_ \div 4 /\ c1.capacity_ > min_cap
               THEN CB_resize_down(c1) ELSE c1]

\* A pop_front that moves the element out and does not destroy it in its slot.
CB_pop_front_no_destroy(cb) ==
    LET c1 == [cb EXCEPT !.begin_pos = (cb.begin_pos + 1) % cb.capacity_,
                         !.size_ = @ - 1]
    IN [value |-> cb.data[cb.begin_pos],
        cb |-> IF c1.size_ < c1.capacity_ \div 4 /\ c1.capacity_ > min_cap
               THEN CB_resize_down(c1) ELSE c1]

\* A pop_front that never shrinks the storage.
CB_pop_front_no_shrink(cb) ==
    LET c1 == [cb EXCEPT !.data[cb.begin_pos] = NoSlot,
                         !.begin_pos = (cb.begin_pos + 1) % cb.capacity_,
                         !.size_ = @ - 1]
    IN [value |-> cb.data[cb.begin_pos], cb |-> c1]

CB_pop_front(cb) ==
    LET c1 == [cb EXCEPT !.data[cb.begin_pos] = NoSlot,
                         !.begin_pos = (cb.begin_pos + 1) % cb.capacity_,
                         !.size_ = @ - 1]
    IN [value |-> cb.data[cb.begin_pos],
        cb |-> IF c1.size_ < c1.capacity_ \div 4 /\ c1.capacity_ > min_cap
               THEN CB_resize_down(c1) ELSE c1]

\* An operator[] that ignores begin_pos.
CB_at_from_zero(cb, index) == cb.data[index % cb.capacity_]

CB_at(cb, index) == cb.data[(cb.begin_pos + index) % cb.capacity_]

CB_back(cb) == cb.data[IF cb.end_pos = 0 THEN cb.capacity_ - 1 ELSE cb.end_pos - 1]

CB_front(cb) == cb.data[cb.begin_pos]

\* CircularBuffer(CircularBuffer&&): what the constructed buffer holds, what the source keeps.
CB_move_target(cb) == cb

CB_move_source(cb) == [cb EXCEPT !.data = << >>, !.has_data = FALSE]

\* ------------------------------------------------------------ FixedArray, heap
NewFixedArray ==
    [st |-> "live", data |-> [i \in 0..(fixed_arr_n_elem - 1) |-> Raw],
     next |-> Null, prev |-> Null]

FreeBlock ==
    [st |-> "free", data |-> [i \in 0..(fixed_arr_n_elem - 1) |-> Raw],
     next |-> Null, prev |-> Null]

FreeAddrs(heap) == {a \in Addr : heap[a].st = "free"}

\* operator new: the lowest free address
FreshAddr(heap) == CHOOSE a \in FreeAddrs(heap) : \A b \in FreeAddrs(heap) : a <= b

\* ------------------------------------------------------------ CachingAllocator
\* W is the whole program state: [dq, pool, heap, status, ret, site, dtor_on_raw, dtor_on_idle].
RECURSIVE PA_reserve(_, _, _)
PA_reserve(W, p, n) ==
    IF n = 0 THEN W
    ELSE LET a == FreshAddr(W.heap)
         IN PA_reserve([W EXCEPT !.heap[a].st = "idle",
                                 !.pool[p].cache = Append(@, a)], p, n - 1)

\* CachingAllocator(initial_reserve, max_reserve_)
PA_construct(W, p, reserve, maxr) ==
    PA_reserve([W EXCEPT !.pool[p] = [cache |-> << >>, max_reserve |-> maxr,
                                      alive |-> TRUE]], p, reserve)

\* CachingAllocator(initial_reserve), the second argument defaulted
PA_new(W, p, reserve) == PA_construct(W, p, reserve, max_reserve)

CanAllocate(W, p) == W.pool[p].cache # << >> \/ FreeAddrs(W.heap) # {}

\* An allocate that takes the block that has been cached longest.
allocate_oldest(W, p) ==
    LET c == W.pool[p].cache
    IN IF c # << >>
       THEN LET ptr == c[1]
            IN [ptr |-> ptr,
                W |-> [W EXCEPT !.pool[p].cache = Tail(c),
                                !.heap[ptr] = NewFixedArray]]
       ELSE LET ptr == FreshAddr(W.heap)
            IN [ptr |-> ptr, W |-> [W EXCEPT !.heap[ptr] = NewFixedArray]]

allocate(W, p) ==
    LET c == W.pool[p].cache
    IN IF c # << >>
       THEN LET ptr == c[Len(c)]
            IN [ptr |-> ptr,
                W |-> [W EXCEPT !.pool[p].cache = SubSeq(c, 1, Len(c) - 1),
                                !.heap[ptr] = NewFixedArray]]
       ELSE LET ptr == FreshAddr(W.heap)
            IN [ptr |-> ptr, W |-> [W EXCEPT !.heap[ptr] = NewFixedArray]]

Abort(W) == [W EXCEPT !.status = "abort"]      \* a failed assert
Crash(W) == [W EXCEPT !.status = "crash"]      \* a null or dangling dereference

\* A release that caches one block more than max_reserve.
release_one_more(W, h) ==
    IF h.ptr = Null \/ h.ptr = -1 THEN W
    ELSE IF ~W.pool[h.del].alive THEN Crash(W)
    ELSE IF Len(W.pool[h.del].cache) > W.pool[h.del].max_reserve
         THEN [W EXCEPT !.heap[h.ptr].st = "free", !.dtor_on_idle = TRUE]
         ELSE [W EXCEPT !.heap[h.ptr].st = "idle",
                        !.pool[h.del].cache = Append(@, h.ptr)]

\* ~unique_ptr: operator()(ptr) of the allocator the handle refers to. It
\* runs ptr->~T(); with the cache full, delete ptr then runs ~T() again on
\* the block, which holds no object any more.
release(W, h) ==
    IF h.ptr = Null \/ h.ptr = -1 THEN W
    ELSE IF ~W.pool[h.del].alive THEN Crash(W)
    ELSE IF Len(W.pool[h.del].cache) >= W.pool[h.del].max_reserve
         THEN [W EXCEPT !.heap[h.ptr].st = "free", !.dtor_on_idle = TRUE]
         ELSE [W EXCEPT !.heap[h.ptr].st = "idle",
                        !.pool[h.del].cache = Append(@, h.ptr)]

\* ------------------------------------------------------------ Deque
\* The buffer can be read: front()/back() assert size_ > 0, then dereference data.
BufferState(cb) ==
    IF cb.size_ = 0 THEN "abort" ELSE IF ~cb.has_data THEN "crash" ELSE "ok"

Fail(W, how) == [W EXCEPT !.status = how]

NoDeque ==
    [alive |-> FALSE, buffer |-> CB_move_source(CB_new(0)),
     first_idx |-> 0, last_idx |-> 0, size_ |-> 0]

NoPool == [cache |-> << >>, max_reserve |-> 0, alive |-> FALSE]

\* Members are initialised in declaration order: allocator{5}, buffer{}, the
\* offsets, size_; then the constructor body acquires the first segment.
Deque_new(W, d) ==
    LET W1 == PA_new(W, d, initial_reserve)
        A == allocate(W1, d)
    IN [A.W EXCEPT !.dq[d] = [alive |-> TRUE,
                              buffer |-> CB_emplace_back_impl(CB_new(min_cap), Handle(A.ptr, d)),
                              first_idx |-> 0, last_idx |-> 0, size_ |-> 0]]

emplace_front_impl(W, d, v) ==
    LET q == W.dq[d]
        W1 == IF q.first_idx # 0 THEN W
              ELSE IF BufferState(q.buffer) # "ok" THEN Fail(W, BufferState(q.buffer))
              ELSE LET first_array_ptr == CB_front(q.buffer).ptr
                       A == allocate(W, d)
                   IN [A.W EXCEPT !.dq[d].buffer = CB_emplace_front_impl(q.buffer, Handle(A.ptr, d)),
                                  !.heap[A.ptr].next = first_array_ptr,
                                  !.heap[first_array_ptr].prev = A.ptr,
                                  !.dq[d].first_idx = fixed_arr_n_elem]
        q1 == W1.dq[d]
    IN IF W1.status # "ok" THEN W1
       ELSE IF BufferState(q1.buffer) # "ok" THEN Fail(W1, BufferState(q1.buffer))
       ELSE LET first_array == CB_front(q1.buffer).ptr
                idx == Dec(q1.first_idx)
                W2 == [W1 EXCEPT !.dq[d].first_idx = idx]
            IN IF ~(idx < fixed_arr_n_elem) THEN Abort(W2)
               ELSE [W2 EXCEPT !.heap[first_array].data[idx] = v,
                               !.dq[d].size_ = @ + 1,
                               !.site = <<first_array, idx>>]

emplace_back_impl(W, d, v) ==
    LET q == W.dq[d]
        W1 == IF q.last_idx # fixed_arr_n_elem THEN W
              ELSE IF BufferState(q.buffer) # "ok" THEN Fail(W, BufferState(q.buffer))
              ELSE LET last_array_ptr == CB_back(q.buffer).ptr
                       A == allocate(W, d)
                   IN [A.W EXCEPT !.dq[d].buffer = CB_emplace_back_impl(q.buffer, Handle(A.ptr, d)),
                                  !.heap[A.ptr].prev = last_array_ptr,
                                  !.heap[last_array_ptr].next = A.ptr,
                                  !.dq[d].last_idx = 0]
        q1 == W1.dq[d]
    IN IF W1.status # "ok" THEN W1
       ELSE IF BufferState(q1.buffer) # "ok" THEN Fail(W1, BufferState(q1.buffer))
       ELSE LET last_array == CB_back(q1.buffer).ptr
                idx == q1.last_idx
            IN IF ~(idx < fixed_arr_n_elem) THEN Abort(W1)
               ELSE [W1 EXCEPT !.heap[last_array].data[idx] = v,
                               !.dq[d].last_idx = idx + 1,
                               !.dq[d].size_ = @ + 1,
                               !.site = <<last_array, idx>>]

RECURSIVE emplace_all(_, _, _)
emplace_all(W, d, init) ==
    IF init = << >> \/ W.status # "ok" THEN W
    ELSE emplace_all(emplace_back_impl(W, d, Head(init)), d, Tail(init))

\* Deque(std::initializer_list<T>)
Deque_init(W, d, init) == emplace_all(Deque_new(W, d), d, init)

push_back(W, d, v) == emplace_back_impl(W, d, v)

push_front(W, d, v) == emplace_front_impl(W, d, v)

pop_back(W, d) ==
    LET q == W.dq[d]
    IN IF ~(q.size_ > 0) THEN Abort(W)
       ELSE LET idx == Dec(q.last_idx)
                W1 == [W EXCEPT !.dq[d].size_ = @ - 1, !.dq[d].last_idx = idx]
            IN IF BufferState(q.buffer) # "ok" THEN Fail(W1, BufferState(q.buffer))
               ELSE LET last_array == CB_back(q.buffer).ptr
                    IN IF ~(idx < fixed_arr_n_elem) THEN Abort(W1)
                       ELSE LET W2 == [W1 EXCEPT !.heap[last_array].data[idx] = Moved,
                                                 !.ret = W.heap[last_array].data[idx]]
                            IN IF idx # 0 THEN W2
                               ELSE LET P == CB_pop_back(q.buffer)
                                    IN release([W2 EXCEPT !.dq[d].buffer = P.cb,
                                                          !.dq[d].last_idx = fixed_arr_n_elem],
                                               P.value)

pop_front(W, d) ==
    LET q == W.dq[d]
    IN IF ~(q.size_ > 0) THEN Abort(W)
       ELSE LET W1 == [W EXCEPT !.dq[d].size_ = @ - 1]
            IN IF BufferState(q.buffer) # "ok" THEN Fail(W1, BufferState(q.buffer))
               ELSE LET first_array == CB_front(q.buffer).ptr
                        idx == q.first_idx
                    IN IF ~(idx < fixed_arr_n_elem) THEN Abort(W1)
                       ELSE LET W2 == [W1 EXCEPT !.heap[first_array].data[idx] = Moved,
                                                 !.ret = W.heap[first_array].data[idx],
                                                 !.dq[d].first_idx = idx + 1]
                            IN IF idx + 1 # fixed_arr_n_elem THEN W2
                               ELSE LET P == CB_pop_front(q.buffer)
                                    IN release([W2 EXCEPT !.dq[d].buffer = P.cb,
                                                          !.dq[d].first_idx = 0],
                                               P.value)

\* operator[]: the slot the reference designates, or the assert that fails.
Bad(how) == [ok |-> FALSE, how |-> how, seg |-> Null, idx |-> 0]
Slot(seg, idx) ==
    IF idx < fixed_arr_n_elem THEN [ok |-> TRUE, how |-> "ok", seg |-> seg, idx |-> idx]
    ELSE Bad("abort")

\* An operator[] that wraps around inside the head segment.
index_wraps_in_head(W, d, i) ==
    LET q == W.dq[d]
    IN IF ~(i < q.size_) THEN Bad("abort")
       ELSE IF BufferState(q.buffer) # "ok" THEN Bad(BufferState(q.buffer))
       ELSE Slot(CB_front(q.buffer).ptr, (q.first_idx + i) % fixed_arr_n_elem)

\* An operator[] that never leaves the head segment.
index_in_head(W, d, i) ==
    LET q == W.dq[d]
    IN IF ~(i < q.size_) THEN Bad("abort")
       ELSE IF BufferState(q.buffer) # "ok" THEN Bad(BufferState(q.buffer))
       ELSE Slot(CB_front(q.buffer).ptr, q.first_idx + i)

index(W, d, i) ==
    LET q == W.dq[d]
        first_size == fixed_arr_n_elem - q.first_idx
    IN IF ~(i < q.size_) THEN Bad("abort")
       ELSE IF i < first_size
            THEN IF BufferState(q.buffer) # "ok" THEN Bad(BufferState(q.buffer))
                 ELSE Slot(CB_front(q.buffer).ptr, q.first_idx + i)
       ELSE LET adjusted_index == i - first_size
                num_full_arrays == adjusted_index \div fixed_arr_n_elem
                index_in_array == adjusted_index % fixed_arr_n_elem
            IN IF ~(num_full_arrays + 1 < q.buffer.size_) THEN Bad("abort")
               ELSE IF ~q.buffer.has_data THEN Bad("crash")
               ELSE Slot(CB_at(q.buffer, num_full_arrays + 1).ptr, index_in_array)

\* A back() without its assert(size_ > 0).
back_unchecked(W, d) ==
    LET q == W.dq[d]
    IN IF BufferState(q.buffer) # "ok" THEN Bad(BufferState(q.buffer))
       ELSE Slot(CB_back(q.buffer).ptr, Dec(q.last_idx))

back(W, d) ==
    LET q == W.dq[d]
    IN IF ~(q.size_ > 0) THEN Bad("abort")
       ELSE IF BufferState(q.buffer) # "ok" THEN Bad(BufferState(q.buffer))
       ELSE Slot(CB_back(q.buffer).ptr, Dec(q.last_idx))

front(W, d) ==
    LET q == W.dq[d]
    IN IF ~(q.size_ > 0) THEN Bad("abort")
       ELSE IF BufferState(q.buffer) # "ok" THEN Bad(BufferState(q.buffer))
       ELSE Slot(CB_front(q.buffer).ptr, q.first_idx)

\* A size computed from the boundary offsets, as if there were one segment.
size_from_offsets(W, d) == W.dq[d].last_idx - W.dq[d].first_idx

size(W, d) == W.dq[d].size_

empty(W, d) == W.dq[d].size_ = 0

\* The value a reference designates (0 when the access failed).
Deref(W, r) == IF r.ok THEN W.heap[r.seg].data[r.idx] ELSE Raw

\* A call of front(), back() or operator[] whose result is r: the program
\* goes on with the reference, or stops where the call failed.
use(W, r) == IF r.ok THEN W ELSE Fail(W, r.how)

\* deque[i] = v
write(W, d, i, v) ==
    LET r == index(W, d, i)
    IN IF r.ok THEN [W EXCEPT !.heap[r.seg].data[r.idx] = v] ELSE Fail(W, r.how)

\* ------------------------------------------------------------ Deque::Iterator
Iterator(array, idx) == [current_array |-> array, index |-> idx]

NoIterator == Iterator(-1, 0)        \* the step itself failed (assert or null dereference)

end(W, d) == Iterator(Null, 0)

begin(W, d) ==
    LET q == W.dq[d]
    IN IF q.size_ = 0 THEN end(W, d)
       ELSE IF BufferState(q.buffer) # "ok" THEN NoIterator
       ELSE Iterator(CB_front(q.buffer).ptr, q.first_idx)

next(W, d, it) ==
    LET q == W.dq[d]
    IN IF it.current_array = Null THEN it
       ELSE IF it.index = Dec(q.last_idx) /\ BufferState(q.buffer) # "ok" THEN NoIterator
       ELSE IF it.index = Dec(q.last_idx) /\ it.current_array = CB_back(q.buffer).ptr
            THEN Iterator(Null, 0)
       ELSE IF it.index = fixed_arr_n_elem - 1
            THEN Iterator(W.heap[it.current_array].next, 0)
       ELSE Iterator(it.current_array, it.index + 1)

prev(W, d, it) ==
    LET q == W.dq[d]
    IN IF BufferState(q.buffer) # "ok" THEN NoIterator
       ELSE IF it.current_array = Null
            THEN Iterator(CB_back(q.buffer).ptr, Dec(q.last_idx))
       ELSE IF it.current_array = CB_front(q.buffer).ptr /\ it.index = q.first_idx
            THEN Iterator(Null, 0)
       ELSE IF it.index > 0 THEN Iterator(it.current_array, it.index - 1)
       ELSE Iterator(W.heap[it.current_array].prev, fixed_arr_n_elem - 1)

\* An iterator that designates a slot of a block (operator* reads data[index]).
Designates(it) == it.current_array \in Addr /\ it.index \in 0..(fixed_arr_n_elem - 1)

RECURSIVE WalkFrom(_, _, _, _)
\* The positions for (it = begin(); it != end(); ++it) visits, cut after fuel steps.
WalkFrom(W, d, it, fuel) ==
    IF it = end(W, d) \/ ~Designates(it) \/ fuel = 0 THEN << >>
    ELSE <<it>> \o WalkFrom(W, d, next(W, d, it), fuel - 1)

WalkFuel(W, d) == W.dq[d].size_ + 2 * fixed_arr_n_elem + 1

Walk(W, d) == WalkFrom(W, d, begin(W, d), WalkFuel(W, d))

RECURSIVE WalkBack(_, _, _, _)
\* The positions end().prev(), .prev(), ... visits until the null sentinel.
WalkBack(W, d, it, fuel) ==
    IF it.current_array = Null \/ ~Designates(it) \/ fuel = 0 THEN << >>
    ELSE <<it>> \o WalkBack(W, d, prev(W, d, it), fuel - 1)

\* ------------------------------------------------------------ Deque: rule of 5
UBOutcomes == {"continue", "crash"}

RECURSIVE destroy_items(_, _, _)
\* item.~T() for each visited position.  On a slot without an object the
\* behaviour is undefined: u is what the build does there.
destroy_items(W, its, u) ==
    IF its = << >> \/ W.status # "ok" THEN W
    ELSE LET it == Head(its)
             slot == W.heap[it.current_array].data[it.index]
         IN IF slot = Raw
            THEN destroy_items([W EXCEPT !.dtor_on_raw = TRUE,
                                         !.status = IF u = "crash" THEN "crash" ELSE @],
                               Tail(its), u)
            ELSE destroy_items([W EXCEPT !.heap[it.current_array].data[it.index] = Raw],
                               Tail(its), u)

RECURSIVE release_all(_, _)
release_all(W, hs) ==
    IF hs = << >> \/ W.status # "ok" THEN W
    ELSE release_all(release(W, Head(hs)), Tail(hs))

\* the handles ~CircularBuffer destroys, in its order
CB_handles(cb) == [i \in 1..cb.size_ |-> CB_at(cb, i - 1)]

\* ~CircularBuffer: with data == nullptr and size_ > 0 it dereferences null.
CB_destroy(W, cb) ==
    IF cb.size_ = 0 THEN W
    ELSE IF ~cb.has_data THEN Crash(W)
    ELSE release_all(W, CB_handles(cb))

RECURSIVE delete_all(_, _)
delete_all(heap, ptrs) ==
    IF ptrs = << >> THEN heap
    ELSE delete_all([heap EXCEPT ![Head(ptrs)].st = "free"], Tail(ptrs))

\* ~CachingAllocator: delete ptr on every cached block, which runs ~T() on
\* a block that holds no object
PA_destroy(W, p) ==
    [W EXCEPT !.heap = delete_all(W.heap, W.pool[p].cache), !.pool[p] = NoPool,
              !.dtor_on_idle = @ \/ W.pool[p].cache # << >>]

\* ~Deque, then the members in reverse order: buffer, allocator.
Deque_destroy(W, d, u) ==
    LET W1 == destroy_items(W, Walk(W, d), u)
        W2 == IF W1.status # "ok" THEN W1 ELSE CB_destroy(W1, W1.dq[d].buffer)
    IN IF W2.status # "ok" THEN W2
       ELSE [PA_destroy(W2, d) EXCEPT !.dq[d] = NoDeque]

\* Deque(Deque&& other): d is constructed from o.
Deque_move(W, d, o) ==
    LET src == W.dq[o]
    IN [W EXCEPT !.pool[d] = [W.pool[o] EXCEPT !.alive = TRUE],
                 !.pool[o].cache = << >>,
                 !.dq[d] = [alive |-> TRUE, buffer |-> CB_move_target(src.buffer),
                            first_idx |-> src.first_idx, last_idx |-> src.last_idx,
                            size_ |-> src.size_],
                 !.dq[o] = [src EXCEPT !.buffer = CB_move_source(src.buffer),
                                       !.first_idx = 0, !.last_idx = 0, !.size_ = 0]]

\* Blocks only the overwritten members of d knew about: nothing frees them.
Orphans(W, d) ==
    {W.pool[d].cache[i] : i \in 1..Len(W.pool[d].cache)} \cup
    (IF W.dq[d].buffer.has_data
     THEN {CB_at(W.dq[d].buffer, i).ptr : i \in 0..(W.dq[d].buffer.size_ - 1)} \cap Addr
     ELSE {})

\* operator=(Deque&& other), this != &other: destroy the items, then
\* construct over *this; the old allocator and buffer are not destroyed.
Deque_move_assign(W, d, o, u) ==
    LET W1 == destroy_items(W, Walk(W, d), u)
    IN IF W1.status # "ok" THEN W1
       ELSE Deque_move([W1 EXCEPT !.heap = [a \in Addr |->
                                              IF a \in Orphans(W1, d)
                                              THEN [W1.heap[a] EXCEPT !.st = "leaked"]
                                              ELSE W1.heap[a]]],
                       d, o)

\* ------------------------------------------------------------ state
VARIABLES
    dq,        \* the Deque objects: ring buffer of handles, first_idx, last_idx, size_
    pool,      \* the CachingAllocator member of each Deque object
    heap,      \* the FixedArray blocks by address
    status,    \* "ok", or how the program stopped: "abort" (assert), "crash"
    ret,       \* the value the last pop returned
    site,      \* the slot the last emplace constructed into
    dtor_on_raw, \* a destructor of T ran on a slot that holds no object
    init,      \* the initializer list the Deque was constructed from
    ref,       \* reference double-ended sequence of each Deque
    locs,      \* the slot each element of ref was constructed in
    nPush,     \* completed pushes (the constructor's emplaces included)
    nPop,      \* completed pops
    nPopFront, \* completed pop_front calls
    nMoves,    \* move constructions and move assignments so far
    gone,      \* the Deque objects whose lifetime has ended
    lastOp,    \* the operation that led to this state
    nPushFront, \* completed push_front calls
    rb,        \* a CircularBuffer used on its own
    rref,      \* reference double-ended sequence of rb
    rret,      \* the value the last pop of rb returned
    rop,       \* the operation on rb that led to this state
    rn,        \* pushes on rb so far
    rt,        \* the element type's counters (TestingTracker) for the elements of rb
    rrun,      \* the shape of the run on rb: pushes only, pushes then pops, or mixed
    dtor_on_idle, \* a destructor of the allocator's T ran on a block that holds no object
    pheld,     \* the blocks a client of a CachingAllocator used on its own holds
    pol,       \* the operation on that CachingAllocator that led to this state
    vec,       \* the Vector objects: capacity, size_ and the storage data points to
    vub,       \* the undefined behaviour a Vector operation has run into so far
    vop,       \* the operation on the Vectors that led to this state
    vn,        \* push_back calls on the Vectors so far
    vna        \* copy assignments to a Vector so far

\* the variables of the CircularBuffer used on its own
ringVars == <<rb, rref, rret, rop, rn, rt, rrun>>

\* the variables of the CachingAllocator used on its own
poolVars == <<pheld, pol>>

\* the variables of the Vectors
vectorVars == <<vec, vub, vop, vn, vna>>

vars == <<dq, pool, heap, status, ret, site, dtor_on_raw, init, ref, locs, nPush, nPop, nPopFront, nMoves, gone, lastOp, nPushFront, rb, rref, rret, rop, rn, rt, rrun, dtor_on_idle, pheld, pol, vec, vub, vop, vn, vna>>

World == [dq |-> dq, pool |-> pool, heap |-> heap, status |-> status, ret |-> ret, site |-> site,
          dtor_on_raw |-> dtor_on_raw, dtor_on_idle |-> dtor_on_idle]

Becomes(W) ==
    /\ dq' = W.dq
    /\ pool' = W.pool
    /\ heap' = W.heap
    /\ status' = W.status
    /\ ret' = W.ret
    /\ site' = W.site
    /\ dtor_on_raw' = W.dtor_on_raw
    /\ dtor_on_idle' = W.dtor_on_idle

Starts(W) ==
    /\ dq = W.dq
    /\ pool = W.pool
    /\ heap = W.heap
    /\ status = W.status
    /\ ret = W.ret
    /\ site = W.site
    /\ dtor_on_raw = W.dtor_on_raw
    /\ dtor_on_idle = W.dtor_on_idle

Blank ==
    [dq |-> [d \in Deques |-> NoDeque], pool |-> [d \in Deques |-> NoPool],
     heap |-> [a \in Addr |-> FreeBlock], status |-> "ok", ret |-> 0, site |-> <<0, 0>>,
     dtor_on_raw |-> FALSE, dtor_on_idle |-> FALSE]

\* An operation on d (from o, for the moves) with argument or expected result v;
\* cap is the capacity of d's ring of handles when the operation began.
Op(name, d, o, v) ==
    [op |-> name, d |-> d, o |-> o, v |-> v, cap |-> dq[d].buffer.capacity_]

RECURSIVE Fill(_)
Fill(n) == IF n = 0 THEN << >> ELSE Append(Fill(n - 1), 1 + (n % 2))

\* Initializer lists: none, one that spills into a second segment, and one
\* that leaves the ring of handles one segment short of full.
InitLists == {Fill(0), Fill(fixed_arr_n_elem + 1), Fill(min_cap * fixed_arr_n_elem)}

\* TestingTracker's static counters (the destructor runs counted are those on
\* elements of the buffer and on the values its pops return), and the objects
\* that were in a backing store when it was released without their destructor
\* having run.
NoTracker == [constructed |-> 0, destructed |-> 0, abandoned |-> 0]

\* no Vector is used in the run
VectorIdle ==
    /\ vec = [x \in {"a", "b"} |-> [capacity |-> 0, size_ |-> 0, data |-> << >>]]
    /\ vub = {}
    /\ vop = [op |-> "none", x |-> "a", y |-> "a", v |-> 0]
    /\ vn = 0
    /\ vna = 0

\* no CachingAllocator is used on its own in the run
PoolIdle ==
    /\ pheld = {}
    /\ pol = [op |-> "none", ptr |-> Null]

\* no CircularBuffer is used on its own in the run
RingIdle ==
    /\ rb = CB_new(min_cap)
    /\ rref = << >>
    /\ rret = 0
    /\ rop = [op |-> "none", v |-> 0, cap |-> 0]
    /\ rn = 0
    /\ rt = NoTracker
    /\ rrun = [shape |-> "pushes", cap |-> min_cap, cap0 |-> min_cap]
    /\ PoolIdle
    /\ VectorIdle

RECURSIVE SitesOf(_, _, _)
\* the slots emplace_back_impl constructs the elements of an initializer list in
SitesOf(W, d, l) ==
    IF l = << >> THEN << >>
    ELSE LET W2 == emplace_back_impl(W, d, Head(l))
         IN <<W2.site>> \o SitesOf(W2, d, Tail(l))

InitWith(l) ==
    /\ Starts(Deque_init(Blank, "a", l))
    /\ init = l
    /\ ref = [d \in Deques |-> IF d = "a" THEN l ELSE << >>]
    /\ locs = [d \in Deques |-> IF d = "a" THEN SitesOf(Deque_new(Blank, "a"), "a", l) ELSE << >>]
    /\ nPush = [d \in Deques |-> IF d = "a" THEN Len(l) ELSE 0]
    /\ nPop = [d \in Deques |-> 0]
    /\ nPopFront = 0
    /\ nMoves = 0
    /\ gone = {}
    /\ lastOp = [op |-> "construct", d |-> "a", o |-> "a", v |-> 0, cap |-> 0]
    /\ nPushFront = 0
    /\ RingIdle

Init == \E l \in InitLists : InitWith(l)

\* Initializer lists for the runs with move operations.
MoveInitLists == {Fill(n) : n \in 0..MaxMoveInit}

InitMove == \E l \in MoveInitLists : InitWith(l)

Usable(d) == status = "ok" /\ dq[d].alive

Pushed == nPush["a"] + nPush["b"] - Len(init)

LongRun == Len(init) > fixed_arr_n_elem + 1

PushBudget(maxPush) == IF LongRun THEN LongPush ELSE maxPush

PushBack(d, maxPush) ==
    /\ Usable(d) /\ Pushed < PushBudget(maxPush) /\ CanAllocate(World, d)
    /\ \E v \in Values :
         LET W2 == push_back(World, d, v)
             done == W2.status = "ok"
         IN /\ Becomes(W2)
            /\ ref' = IF done THEN [ref EXCEPT ![d] = Append(@, v)] ELSE ref
            /\ locs' = IF done THEN [locs EXCEPT ![d] = Append(@, W2.site)] ELSE locs
            /\ nPush' = IF done THEN [nPush EXCEPT ![d] = @ + 1] ELSE nPush
            /\ lastOp' = Op("push_back", d, d, v)
    /\ UNCHANGED <<init, nPop, nPopFront, nMoves, gone, nPushFront, ringVars, poolVars, vectorVars>>

PushFront(d, maxPush) ==
    /\ Usable(d) /\ Pushed < PushBudget(maxPush) /\ CanAllocate(World, d)
    /\ \E v \in Values :
         LET W2 == push_front(World, d, v)
             done == W2.status = "ok"
         IN /\ Becomes(W2)
            /\ ref' = IF done THEN [ref EXCEPT ![d] = <<v>> \o @] ELSE ref
            /\ locs' = IF done THEN [locs EXCEPT ![d] = <<W2.site>> \o @] ELSE locs
            /\ nPush' = IF done THEN [nPush EXCEPT ![d] = @ + 1] ELSE nPush
            /\ nPushFront' = IF done THEN nPushFront + 1 ELSE nPushFront
            /\ lastOp' = Op("push_front", d, d, v)
    /\ UNCHANGED <<init, nPop, nPopFront, nMoves, gone, ringVars, poolVars, vectorVars>>

\* The caller pops only when size() > 0.
PopBack(d) ==
    /\ Usable(d) /\ size(World, d) > 0
    /\ LET W2 == pop_back(World, d)
           done == W2.status = "ok"
       IN /\ Becomes(W2)
          /\ ref' = IF done THEN [ref EXCEPT ![d] = SubSeq(@, 1, Len(@) - 1)] ELSE ref
          /\ locs' = IF done THEN [locs EXCEPT ![d] = SubSeq(@, 1, Len(@) - 1)] ELSE locs
          /\ nPop' = IF done THEN [nPop EXCEPT ![d] = @ + 1] ELSE nPop
          /\ lastOp' = Op("pop_back", d, d, IF ref[d] # << >> THEN ref[d][Len(ref[d])] ELSE 0)
    /\ UNCHANGED <<init, nPush, nPopFront, nMoves, gone, nPushFront, ringVars, poolVars, vectorVars>>

PopFront(d) ==
    /\ Usable(d) /\ size(World, d) > 0
    /\ LongRun => nPopFront < LongPopFront
    /\ LET W2 == pop_front(World, d)
           done == W2.status = "ok"
       IN /\ Becomes(W2)
          /\ ref' = IF done THEN [ref EXCEPT ![d] = Tail(@)] ELSE ref
          /\ locs' = IF done THEN [locs EXCEPT ![d] = Tail(@)] ELSE locs
          /\ nPop' = IF done THEN [nPop EXCEPT ![d] = @ + 1] ELSE nPop
          /\ lastOp' = Op("pop_front", d, d, IF ref[d] # << >> THEN ref[d][1] ELSE 0)
          /\ nPopFront' = IF done THEN nPopFront + 1 ELSE nPopFront
    /\ UNCHANGED <<init, nPush, nMoves, gone, nPushFront, ringVars, poolVars, vectorVars>>

Destroy(d) ==
    /\ Usable(d)
    /\ \E u \in UBOutcomes : Becomes(Deque_destroy(World, d, u))
    /\ lastOp' = Op("destroy", d, d, 0)
    /\ gone' = gone \cup {d}
    /\ UNCHANGED <<init, ref, locs, nPush, nPop, nPopFront, nMoves, nPushFront, ringVars, poolVars, vectorVars>>

Next ==
    \/ PushBack("a", MaxPush)
    \/ PushFront("a", MaxPush)
    \/ PopBack("a")
    \/ PopFront("a")
    \/ Destroy("a")

Spec == Init /\ [][Next]_vars

\* ------------------------------------------------------------ two Deque objects
\* Deque b;
Construct(d) ==
    /\ status = "ok" /\ ~dq[d].alive /\ d \notin gone
    /\ Cardinality(FreeAddrs(heap)) >= initial_reserve
    /\ Becomes(Deque_new(World, d))
    /\ lastOp' = Op("construct", d, d, 0)
    /\ UNCHANGED <<init, ref, locs, nPush, nPop, nPopFront, nMoves, gone, nPushFront, ringVars, poolVars, vectorVars>>

\* Deque d(std::move(o));
MoveConstruct(d, o) ==
    /\ status = "ok" /\ d # o /\ dq[o].alive /\ ~dq[d].alive /\ d \notin gone
    /\ nMoves < MaxMoves
    /\ nMoves' = nMoves + 1
    /\ Becomes(Deque_move(World, d, o))
    /\ lastOp' = Op("move_construct", d, o, 0)
    /\ ref' = [ref EXCEPT ![d] = ref[o], ![o] = << >>]
    /\ locs' = [locs EXCEPT ![d] = locs[o], ![o] = << >>]
    /\ UNCHANGED <<init, nPush, nPop, nPopFront, gone, nPushFront, ringVars, poolVars, vectorVars>>

\* d = std::move(o);
MoveAssign(d, o) ==
    /\ status = "ok" /\ d # o /\ dq[o].alive /\ dq[d].alive
    /\ nMoves < MaxMoves
    /\ nMoves' = nMoves + 1
    /\ \E u \in UBOutcomes :
         LET W2 == Deque_move_assign(World, d, o, u)
             done == W2.status = "ok"
         IN /\ Becomes(W2)
            /\ ref' = IF done THEN [ref EXCEPT ![d] = ref[o], ![o] = << >>] ELSE ref
            /\ locs' = IF done THEN [locs EXCEPT ![d] = locs[o], ![o] = << >>] ELSE locs
    /\ lastOp' = Op("move_assign", d, o, 0)
    /\ UNCHANGED <<init, nPush, nPop, nPopFront, gone, nPushFront, ringVars, poolVars, vectorVars>>

NextMove ==
    \/ \E d \in Deques : PushBack(d, MaxMovePush)
    \/ \E d \in Deques : PushFront(d, MaxMovePush)
    \/ \E d \in Deques : PopBack(d)
    \/ \E d \in Deques : PopFront(d)
    \/ \E d \in Deques : Destroy(d)
    \/ Construct("b")
    \/ \E d, o \in Deques : MoveConstruct(d, o)
    \/ \E d, o \in Deques : MoveAssign(d, o)

SpecMove == InitMove /\ [][NextMove]_vars

\* ------------------------------------------------------------ writes, calls outside the preconditions
\* deque[i] = v with i < size()
Write(d) ==
    /\ Usable(d) /\ ~LongRun
    /\ \E i \in 0..(size(World, d) - 1), v \in Values :
          /\ Becomes(write(World, d, i, v))
          /\ ref' = [ref EXCEPT ![d][i + 1] = v]
          /\ lastOp' = [op |-> "write", d |-> d, o |-> d, v |-> v,
                        cap |-> dq[d].buffer.capacity_, i |-> i]
    /\ UNCHANGED <<init, locs, nPush, nPop, nPopFront, nMoves, gone, nPushFront, ringVars, poolVars, vectorVars>>

\* what a call outside its precondition leaves unchanged in the model's bookkeeping
Misused(name, d) ==
    /\ lastOp' = Op(name, d, d, 0)
    /\ UNCHANGED <<init, ref, locs, nPush, nPop, nPopFront, nMoves, gone, nPushFront, ringVars, poolVars, vectorVars>>

\* pop_back() on an empty Deque
PopBackEmpty(d) ==
    /\ Usable(d) /\ empty(World, d)
    /\ Becomes(pop_back(World, d))
    /\ Misused("pop_back_empty", d)

\* pop_front() on an empty Deque
PopFrontEmpty(d) ==
    /\ Usable(d) /\ empty(World, d)
    /\ Becomes(pop_front(World, d))
    /\ Misused("pop_front_empty", d)

\* front() on an empty Deque
FrontEmpty(d) ==
    /\ Usable(d) /\ empty(World, d)
    /\ Becomes(use(World, front(World, d)))
    /\ Misused("front_empty", d)

\* back() on an empty Deque
BackEmpty(d) ==
    /\ Usable(d) /\ empty(World, d)
    /\ Becomes(use(World, back(World, d)))
    /\ Misused("back_empty", d)

\* deque[i] with i >= size()
IndexPast(d) ==
    /\ Usable(d)
    /\ \E i \in size(World, d)..(size(World, d) + fixed_arr_n_elem) :
          Becomes(use(World, index(World, d, i)))
    /\ Misused("index_past", d)

NextAccess ==
    \/ PushBack("a", MaxAccessPush)
    \/ PushFront("a", MaxAccessPush)
    \/ PopBack("a")
    \/ PopFront("a")
    \/ Write("a")
    \/ PopBackEmpty("a")
    \/ PopFrontEmpty("a")
    \/ FrontEmpty("a")
    \/ BackEmpty("a")
    \/ IndexPast("a")

SpecAccess == Init /\ [][NextAccess]_vars

\* ------------------------------------------------------------ CircularBuffer on its own
\* the variables of the Deque objects
dequeVars == <<dq, pool, heap, status, ret, site, dtor_on_raw, init, ref, locs, nPush, nPop,
               nPopFront, nMoves, gone, lastOp, nPushFront, dtor_on_idle>>

\* explicit CircularBuffer(_cap = min_cap), _cap >= 1
RingCaps == (1..MaxRingCap) \cup {min_cap, min_cap + 2, 2 * min_cap + 2}

\* CircularBuffer::Iterator: a position counted from begin_pos. The buffer
\* it points to is the one the operators are given.
RB_begin(cb) == [index |-> 0]

\* An end() one past the last slot of the storage.
RB_end_at_capacity(cb) == [index |-> cb.capacity_]

RB_end(cb) == [index |-> cb.size_]

\* operator++
RB_next(it) == [index |-> it.index + 1]

\* operator*
RB_deref(cb, it) == cb.data[(cb.begin_pos + it.index) % cb.capacity_]

\* for (it = from; it != end(); ++it): the elements visited, in order
RECURSIVE RB_WalkFrom(_, _, _)
RB_WalkFrom(cb, it, fuel) ==
    IF it = RB_end(cb) \/ fuel = 0
    THEN << >>
    ELSE <<RB_deref(cb, it)>> \o RB_WalkFrom(cb, RB_next(it), fuel - 1)

\* the counters across CircularBuffer::resize: every element is
\* move-constructed into the new storage, and the old storage is released
\* with the moved-from objects still in it, no destructor having run on them
T_resize(t, cb) == [t EXCEPT !.abandoned = @ + cb.size_]

\* the counters across emplace_back_impl / emplace_front_impl on cb
T_emplace(t, cb) ==
    LET t1 == IF cb.size_ < cb.capacity_ THEN t ELSE T_resize(t, cb)
    IN [t1 EXCEPT !.constructed = @ + 1]

\* the counters across pop_back / pop_front on cb: the destructor runs on
\* the slot and, in the caller, on the returned value
T_pop(t, cb) ==
    LET t1 == [t EXCEPT !.destructed = @ + 2]
    IN IF cb.size_ - 1 < cb.capacity_ \div 4 /\ cb.capacity_ > min_cap
       THEN T_resize(t1, [cb EXCEPT !.size_ = @ - 1])
       ELSE t1

\* A destructor that runs ~T() on every slot of the storage.
T_destroy_whole_storage(t, cb) == [t EXCEPT !.destructed = @ + cb.capacity_]

\* the counters across ~CircularBuffer on cb
T_destroy(t, cb) == [t EXCEPT !.destructed = @ + cb.size_]

\* the shape of the run after a push that leaves capacity cap, after a pop
RunPush(r, cap) ==
    IF r.shape = "pushes" THEN [r EXCEPT !.cap = cap] ELSE [r EXCEPT !.shape = "mixed"]

RunPop(r) == IF r.shape = "pushes" THEN [r EXCEPT !.shape = "pops"] ELSE r

\* the pushes a run makes on the buffer
RingPushBudget == IF rrun.cap0 > min_cap THEN MaxBigRingPush ELSE MaxRingPush

\* the CircularBuffer object exists
RingAlive == rop.op # "destroy"

\* no CircularBuffer object
NoRing == CB_move_source(CB_new(0))

InitRing ==
    /\ Starts(Blank)
    /\ init = << >>
    /\ ref = [d \in Deques |-> << >>]
    /\ locs = [d \in Deques |-> << >>]
    /\ nPush = [d \in Deques |-> 0]
    /\ nPop = [d \in Deques |-> 0]
    /\ nPopFront = 0
    /\ nMoves = 0
    /\ gone = {}
    /\ lastOp = [op |-> "none", d |-> "a", o |-> "a", v |-> 0, cap |-> 0]
    /\ nPushFront = 0
    /\ \E c \in RingCaps :
          /\ rb = CB_new(c)
          /\ rrun = [shape |-> "pushes", cap |-> c, cap0 |-> c]
    /\ rref = << >>
    /\ rret = 0
    /\ rop = [op |-> "construct", v |-> 0, cap |-> 0]
    /\ rn = 0
    /\ rt = NoTracker
    /\ PoolIdle
    /\ VectorIdle

\* An operation on rb with argument or expected result v; cap is the capacity
\* of rb when the operation began.
RingOp(name, v) == [op |-> name, v |-> v, cap |-> rb.capacity_]

\* the element the next push stores: every pushed element is distinct
RingElem == Handle(rn + 1, "ring")

RingPushBack ==
    /\ RingAlive /\ rn < RingPushBudget
    /\ rb' = CB_emplace_back_impl(rb, RingElem)
    /\ rref' = Append(rref, RingElem.ptr)
    /\ rop' = RingOp("push_back", RingElem.ptr)
    /\ rn' = rn + 1
    /\ rt' = T_emplace(rt, rb)
    /\ rrun' = RunPush(rrun, rb'.capacity_)
    /\ UNCHANGED <<rret, dequeVars, poolVars, vectorVars>>

RingPushFront ==
    /\ RingAlive /\ rn < RingPushBudget
    /\ rb' = CB_emplace_front_impl(rb, RingElem)
    /\ rref' = <<RingElem.ptr>> \o rref
    /\ rop' = RingOp("push_front", RingElem.ptr)
    /\ rn' = rn + 1
    /\ rt' = T_emplace(rt, rb)
    /\ rrun' = RunPush(rrun, rb'.capacity_)
    /\ UNCHANGED <<rret, dequeVars, poolVars, vectorVars>>

\* The caller pops only when size() > 0.
RingPopBack ==
    /\ RingAlive /\ rb.size_ > 0
    /\ rb' = CB_pop_back(rb).cb
    /\ rret' = CB_pop_back(rb).value.ptr
    /\ rref' = SubSeq(rref, 1, Len(rref) - 1)
    /\ rop' = RingOp("pop_back", IF rref # << >> THEN rref[Len(rref)] ELSE 0)
    /\ rt' = T_pop(rt, rb)
    /\ rrun' = RunPop(rrun)
    /\ UNCHANGED <<rn, dequeVars, poolVars, vectorVars>>

RingPopFront ==
    /\ RingAlive /\ rb.size_ > 0
    /\ rb' = CB_pop_front(rb).cb
    /\ rret' = CB_pop_front(rb).value.ptr
    /\ rref' = Tail(rref)
    /\ rop' = RingOp("pop_front", IF rref # << >> THEN rref[1] ELSE 0)
    /\ rt' = T_pop(rt, rb)
    /\ rrun' = RunPop(rrun)
    /\ UNCHANGED <<rn, dequeVars, poolVars, vectorVars>>

NextRing ==
    \/ RingPushBack
    \/ RingPushFront
    \/ RingPopBack
    \/ RingPopFront

SpecRing == InitRing /\ [][NextRing]_vars

\* the CircularBuffer goes out of scope
RingDestroy ==
    /\ RingAlive
    /\ rt' = T_destroy(rt, rb)
    /\ rb' = NoRing
    /\ rref' = << >>
    /\ rop' = RingOp("destroy", 0)
    /\ UNCHANGED <<rret, rn, rrun, dequeVars, poolVars, vectorVars>>

SpecRingLife == InitRing /\ [][NextRing \/ RingDestroy]_vars

\* ------------------------------------------------------------ a CachingAllocator on its own
\* CachingAllocator<T> a(reserve, maxr) and nothing else
InitPool ==
    /\ \E reserve \in 0..MaxPoolReserve, maxr \in 0..MaxPoolRetain :
          Starts(PA_construct(Blank, "a", reserve, maxr))
    /\ init = << >>
    /\ ref = [d \in Deques |-> << >>]
    /\ locs = [d \in Deques |-> << >>]
    /\ nPush = [d \in Deques |-> 0]
    /\ nPop = [d \in Deques |-> 0]
    /\ nPopFront = 0
    /\ nMoves = 0
    /\ gone = {}
    /\ lastOp = [op |-> "none", d |-> "a", o |-> "a", v |-> 0, cap |-> 0]
    /\ nPushFront = 0
    /\ rb = CB_new(min_cap)
    /\ rref = << >>
    /\ rret = 0
    /\ rop = [op |-> "none", v |-> 0, cap |-> 0]
    /\ rn = 0
    /\ rt = NoTracker
    /\ rrun = [shape |-> "pushes", cap |-> min_cap, cap0 |-> min_cap]
    /\ pheld = {}
    /\ pol = [op |-> "construct", ptr |-> Null]
    /\ VectorIdle

\* auto h = a.allocate();
PoolAllocate ==
    /\ pool["a"].alive /\ CanAllocate(World, "a") /\ Cardinality(pheld) < MaxPoolHeld
    /\ LET r == allocate(World, "a")
       IN /\ Becomes(r.W)
          /\ pheld' = pheld \cup {r.ptr}
          /\ pol' = [op |-> "allocate", ptr |-> r.ptr]
    /\ UNCHANGED <<init, ref, locs, nPush, nPop, nPopFront, nMoves, gone, lastOp, nPushFront,
                   ringVars, vectorVars>>

\* a handle the client holds goes out of scope
PoolRelease ==
    /\ \E ptr \in pheld :
          /\ Becomes(release(World, Handle(ptr, "a")))
          /\ pheld' = pheld \ {ptr}
          /\ pol' = [op |-> "release", ptr |-> ptr]
    /\ UNCHANGED <<init, ref, locs, nPush, nPop, nPopFront, nMoves, gone, lastOp, nPushFront,
                   ringVars, vectorVars>>

\* the allocator goes out of scope, after the handles that refer to it
PoolDestroy ==
    /\ pool["a"].alive /\ pheld = {}
    /\ Becomes(PA_destroy(World, "a"))
    /\ pol' = [op |-> "destroy", ptr |-> Null]
    /\ UNCHANGED <<pheld, init, ref, locs, nPush, nPop, nPopFront, nMoves, gone, lastOp,
                   nPushFront, ringVars, vectorVars>>

NextPool ==
    \/ PoolAllocate
    \/ PoolRelease
    \/ PoolDestroy

SpecPool == InitPool /\ [][NextPool]_vars

\* ------------------------------------------------------------ Vector
Vectors == {"a", "b"}      \* the Vector objects of a run

\* Vector(): storage for initial_capacity elements from operator new[], no
\* element constructed yet. An element of a storage is "raw" (no object),
\* "live", or "destroyed" (~T() has run).
V_new ==
    [capacity |-> initial_capacity, size_ |-> 0,
     data |-> [i \in 0..(initial_capacity - 1) |-> [st |-> "raw", v |-> 0]]]

\* S is the state of the Vectors: [vec, ub]. resize allocates storage for
\* new_capacity elements and move-constructs the first size_ elements of the
\* old storage into it, whatever they hold and however many fit.
V_resize(S, x, new_capacity) ==
    LET old == S.vec[x]
        new_data == [i \in 0..(new_capacity - 1) |->
                        IF i < old.size_ THEN [st |-> "live", v |-> old.data[i].v]
                        ELSE [st |-> "raw", v |-> 0]]
        ub == (IF \E i \in 0..(old.size_ - 1) : old.data[i].st # "live"
               THEN {"destroyed_element"} ELSE {})
              \cup (IF old.size_ > new_capacity THEN {"out_of_bounds"} ELSE {})
    IN [vec |-> [S.vec EXCEPT ![x].capacity = new_capacity, ![x].data = new_data],
        ub |-> S.ub \cup ub]

V_resize_up(S, x) ==
    IF S.vec[x].size_ < S.vec[x].capacity THEN S
    ELSE V_resize(S, x, S.vec[x].capacity * 2)

V_resize_down(S, x) ==
    IF S.vec[x].size_ > S.vec[x].capacity \div 4 \/ S.vec[x].capacity <= initial_capacity
    THEN S
    ELSE V_resize(S, x, S.vec[x].capacity \div 2)

V_emplace_back(S, x, v) ==
    LET S1 == V_resize_up(S, x)
    IN [S1 EXCEPT !.vec[x].data[S1.vec[x].size_] = [st |-> "live", v |-> v],
                  !.vec[x].size_ = @ + 1]

\* pop_back past its assert(size_ > 0): the element is moved from, not destroyed
V_pop_back(S, x) ==
    V_resize_down([S EXCEPT !.vec[x].size_ = @ - 1], x)

\* x = y;
V_copy_assign(S, x, y) ==
    IF x = y THEN S
    ELSE LET n == S.vec[x].size_
             S1 == [S EXCEPT !.vec[x].data =
                        [i \in DOMAIN @ |-> IF i < n THEN [@[i] EXCEPT !.st = "destroyed"]
                                            ELSE @[i]]]
             S2 == V_resize(S1, x, S.vec[y].capacity)
         IN IF "out_of_bounds" \in S2.ub THEN S2
            ELSE [S2 EXCEPT !.vec[x].data =
                               [i \in DOMAIN @ |->
                                   IF i < S.vec[y].size_
                                   THEN [st |-> "live", v |-> S.vec[y].data[i].v]
                                   ELSE @[i]],
                            !.vec[x].size_ = S.vec[y].size_]

\* The state of the Vectors; the program goes on after an operation unless
\* it wrote outside a storage ("out_of_bounds" in ub).
VecState == [vec |-> vec, ub |-> vub]

\* Vector<int> a; Vector<int> b; and nothing else
InitVector ==
    /\ Starts(Blank)
    /\ init = << >>
    /\ ref = [d \in Deques |-> << >>]
    /\ locs = [d \in Deques |-> << >>]
    /\ nPush = [d \in Deques |-> 0]
    /\ nPop = [d \in Deques |-> 0]
    /\ nPopFront = 0
    /\ nMoves = 0
    /\ gone = {}
    /\ lastOp = [op |-> "none", d |-> "a", o |-> "a", v |-> 0, cap |-> 0]
    /\ nPushFront = 0
    /\ rb = CB_new(min_cap)
    /\ rref = << >>
    /\ rret = 0
    /\ rop = [op |-> "none", v |-> 0, cap |-> 0]
    /\ rn = 0
    /\ rt = NoTracker
    /\ rrun = [shape |-> "pushes", cap |-> min_cap, cap0 |-> min_cap]
    /\ PoolIdle
    /\ vec = [x \in Vectors |-> V_new]
    /\ vub = {}
    /\ vop = [op |-> "construct", x |-> "a", y |-> "a", v |-> 0]
    /\ vn = 0
    /\ vna = 0

\* the value a push_back on x appends: its position, and which Vector it is
VecElem(x) == (IF x = "a" THEN 100 ELSE 200) + vec[x].size_

\* x.push_back(VecElem(x)); a run fills the Vectors before it assigns
VecPushBack ==
    /\ "out_of_bounds" \notin vub /\ vna = 0 /\ vn < MaxVecPush
    /\ \E x \in Vectors :
          LET S == V_emplace_back(VecState, x, VecElem(x))
          IN /\ vec' = S.vec
             /\ vub' = S.ub
             /\ vop' = [op |-> "push_back", x |-> x, y |-> x, v |-> VecElem(x)]
    /\ vn' = vn + 1
    /\ UNCHANGED <<vna, dequeVars, ringVars, poolVars>>

\* x.pop_back(); the caller pops only when size() > 0
VecPopBack ==
    /\ "out_of_bounds" \notin vub /\ vna = 0
    /\ \E x \in Vectors :
          /\ vec[x].size_ > 0
          /\ LET S == V_pop_back(VecState, x)
             IN /\ vec' = S.vec
                /\ vub' = S.ub
                /\ vop' = [op |-> "pop_back", x |-> x, y |-> x,
                           v |-> vec[x].data[vec[x].size_ - 1].v]
    /\ UNCHANGED <<vn, vna, dequeVars, ringVars, poolVars>>

\* x = y; with y another Vector or x itself
VecCopyAssign ==
    /\ "out_of_bounds" \notin vub /\ vna < MaxVecAssign
    /\ vna' = vna + 1
    /\ \E x, y \in Vectors :
          LET S == V_copy_assign(VecState, x, y)
          IN /\ vec' = S.vec
             /\ vub' = S.ub
             /\ vop' = [op |-> "copy_assign", x |-> x, y |-> y, v |-> 0]
    /\ UNCHANGED <<vn, dequeVars, ringVars, poolVars>>

\* x[i] = 0; on the Vector a copy assignment has just assigned to, i < size()
VecWrite ==
    /\ "out_of_bounds" \notin vub /\ vop.op = "copy_assign"
    /\ \E i \in 0..(vec[vop.x].size_ - 1) :
          /\ vec' = [vec EXCEPT ![vop.x].data[i].v = 0]
          /\ vop' = [op |-> "write", x |-> vop.x, y |-> vop.y, v |-> i]
    /\ UNCHANGED <<vub, vn, vna, dequeVars, ringVars, poolVars>>

NextVector ==
    \/ VecPushBack
    \/ VecPopBack
    \/ VecCopyAssign
    \/ VecWrite

SpecVector == InitVector /\ [][NextVector]_vars

\* ------------------------------------------------------------ claims
Pushes == {"push_back", "push_front"}
Pops == {"pop_back", "pop_front"}
Moves == {"move_construct", "move_assign"}

\* the values operator[] reads at 0 .. size()-1
Contents(W, d) == [i \in 1..W.dq[d].size_ |-> Deref(W, index(W, d, i - 1))]

SlotOf(r) == <<r.seg, r.idx>>

\* the slots operator[] designates at 0 .. size()-1
Slots(W, d) == [i \in 1..W.dq[d].size_ |-> SlotOf(index(W, d, i - 1))]

\* C1: pushes and pops (pops only on a non-empty Deque) never fail a
\* precondition, every pop returns the element that was at its end of the
\* reference sequence, and the indexed contents equal the reference sequence.
C1_BehavesLikeReference ==
    /\ lastOp.op \in Pushes \cup Pops \cup {"construct"} => status = "ok"
    /\ lastOp.op \in Pops => ret = lastOp.v
    /\ Usable("a") => Contents(World, "a") = ref["a"]

\* C2: with no pop so far, every push completes and operator[](i) reads the
\* i-th element of the reference sequence (push_back appends, push_front
\* prepends).
C2_PushOnlyIndexing ==
    (nPop["a"] = 0 /\ lastOp.op \in Pushes \cup {"construct"}) =>
        /\ status = "ok"
        /\ \A i \in 1..Len(ref["a"]) :
              /\ index(World, "a", i - 1).ok
              /\ Deref(World, index(World, "a", i - 1)) = ref["a"][i]

\* pushes alone crossed a segment boundary at the front and twice at the back
C2_Witness ==
    /\ status = "ok" /\ nPop["a"] = 0 /\ lastOp.op = "push_back"
    /\ Len(init) = fixed_arr_n_elem + 1
    /\ dq["a"].buffer.size_ = 4
    /\ dq["a"].first_idx = fixed_arr_n_elem - 1
    /\ dq["a"].last_idx = 1

\* C3: after N completed pushes and M completed pops, size() = N - M, and
\* empty() holds exactly when N = M.
C3_SizeIsPushesMinusPops ==
    Usable("a") =>
        /\ size(World, "a") = nPush["a"] - nPop["a"]
        /\ empty(World, "a") <=> (nPush["a"] = nPop["a"])

\* three pushes, three pops from both ends: empty again
C3_Witness ==
    /\ Usable("a") /\ nPush["a"] = 3 /\ nPop["a"] = 3 /\ nPopFront = 1
    /\ empty(World, "a")

\* C4: when size() > 0, front() designates the element at index 0 and back()
\* the element at index size()-1.
C4_FrontBack ==
    (Usable("a") /\ size(World, "a") > 0) =>
        /\ front(World, "a").ok
        /\ front(World, "a") = index(World, "a", 0)
        /\ Deref(World, front(World, "a")) = ref["a"][1]
        /\ back(World, "a").ok
        /\ back(World, "a") = index(World, "a", size(World, "a") - 1)
        /\ Deref(World, back(World, "a")) = ref["a"][Len(ref["a"])]

\* C5: in every state, push_back(v) then pop_back() returns v, push_front(v)
\* then pop_front() returns v, and the pair leaves the indexed contents and
\* size() as they were.
C5_PushThenPop ==
    (Usable("a") /\ CanAllocate(World, "a")) =>
        \A v \in Values :
            LET B == pop_back(push_back(World, "a", v), "a")
                F == pop_front(push_front(World, "a", v), "a")
            IN /\ B.status = "ok" /\ B.ret = v
               /\ size(B, "a") = size(World, "a")
               /\ Contents(B, "a") = Contents(World, "a")
               /\ F.status = "ok" /\ F.ret = v
               /\ size(F, "a") = size(World, "a")
               /\ Contents(F, "a") = Contents(World, "a")

\* C6: every stored element stays in the slot (segment address, offset) it was
\* constructed in until the pop that removes it, across pushes and pops at
\* both ends and across grow and shrink repacks of the ring of handles.
C6_PointerStability ==
    Usable("a") =>
        /\ Len(locs["a"]) = size(World, "a")
        /\ \A i \in 1..Len(locs["a"]) :
              /\ index(World, "a", i - 1).ok
              /\ SlotOf(index(World, "a", i - 1)) = locs["a"][i]
              /\ heap[locs["a"][i][1]].st = "live"

\* a pop has just made the ring of handles shrink (it grew earlier in the
\* run), and elements are still stored
C6_Witness ==
    /\ Usable("a") /\ lastOp.op \in Pops
    /\ lastOp.cap = 2 * min_cap /\ dq["a"].buffer.capacity_ = min_cap
    /\ size(World, "a") > fixed_arr_n_elem

\* C8: from begin(), next() reaches end() after exactly size() steps, the
\* k-th position is the slot of operator[](k), end() is none of them, next()
\* of end() is end(), and begin() = end() on an empty Deque.
C8_ForwardIteration ==
    Usable("a") =>
        /\ Walk(World, "a") = [i \in 1..size(World, "a") |->
                                 Iterator(index(World, "a", i - 1).seg,
                                          index(World, "a", i - 1).idx)]
        /\ \A i \in 1..Len(Walk(World, "a")) : Walk(World, "a")[i] # end(World, "a")
        /\ next(World, "a", end(World, "a")) = end(World, "a")
        /\ empty(World, "a") => begin(World, "a") = end(World, "a")

\* C9: when size() > 0, end().prev() is the slot of index size()-1, each
\* further prev() is the slot of the next lower index, and prev() at the
\* element of index 0 is the null sentinel.
C9_BackwardIteration ==
    (Usable("a") /\ size(World, "a") > 0) =>
        LET n == size(World, "a")
            w == WalkBack(World, "a", prev(World, "a", end(World, "a")), WalkFuel(World, "a"))
        IN /\ w = [i \in 1..n |-> Iterator(index(World, "a", n - i).seg,
                                           index(World, "a", n - i).idx)]
           /\ prev(World, "a", Iterator(index(World, "a", 0).seg, index(World, "a", 0).idx))
                = Iterator(Null, 0)

\* the slots that hold an object whose destructor has not run
Undestroyed(W) ==
    {s \in Addr \X (0..(fixed_arr_n_elem - 1)) :
        W.heap[s[1]].st = "live" /\ W.heap[s[1]].data[s[2]] # Raw}

\* C10: the objects constructed in slots and not yet destroyed are exactly
\* the stored elements (none once the Deque is destroyed), and no destructor
\* runs on a slot without an object.
C10_DestroyedExactlyOnce ==
    /\ ~dtor_on_raw
    /\ status = "ok" =>
          Undestroyed(World) = IF dq["a"].alive
                               THEN {Slots(World, "a")[i] : i \in 1..size(World, "a")}
                               ELSE {}

\* C7: after a move construction or move assignment of D from S, D has S's
\* former elements, size and offsets, and S is as a default-constructed
\* Deque: size 0, one empty segment in its ring, accepting pushes, safe to
\* destroy.
C7_MoveLeavesFreshSource ==
    [][(lastOp'.op \in Moves /\ status' = "ok") =>
          LET D == lastOp'.d
              S == lastOp'.o
          IN /\ Contents(World', D) = Contents(World, S)
             /\ dq'[D].size_ = dq[S].size_
             /\ dq'[D].first_idx = dq[S].first_idx
             /\ dq'[D].last_idx = dq[S].last_idx
             /\ dq'[S].size_ = 0 /\ dq'[S].first_idx = 0 /\ dq'[S].last_idx = 0
             /\ dq'[S].buffer.has_data
             /\ dq'[S].buffer.size_ = 1
             /\ \A v \in Values : push_back(World', S, v).status = "ok"
             /\ \A v \in Values : push_front(World', S, v).status = "ok"
             /\ \A u \in UBOutcomes : Deque_destroy(World', S, u).status = "ok"]_vars

\* C11: fixed_arr_n_elem + 1 push_back calls on an empty Deque (no other
\* operation) complete and give size() = fixed_arr_n_elem + 1 in exactly two
\* segments: indices 0 .. fixed_arr_n_elem - 1 are in the first segment, index
\* fixed_arr_n_elem is slot 0 of the second, newly acquired segment.
C11_SegmentBoundary ==
    (nPop["a"] = 0 /\ nPushFront = 0 /\ lastOp.op \in {"construct", "push_back"}) =>
        /\ status = "ok"
        /\ nPush["a"] = fixed_arr_n_elem + 1 =>
              LET b == dq["a"].buffer
              IN /\ size(World, "a") = fixed_arr_n_elem + 1
                 /\ b.size_ = 2
                 /\ CB_at(b, 0).ptr # CB_at(b, 1).ptr
                 /\ \A i \in 0..(fixed_arr_n_elem - 1) :
                       /\ index(World, "a", i).ok
                       /\ index(World, "a", i).seg = CB_at(b, 0).ptr
                       /\ index(World, "a", i).idx = i
                 /\ index(World, "a", fixed_arr_n_elem).ok
                 /\ index(World, "a", fixed_arr_n_elem).seg = CB_at(b, 1).ptr
                 /\ index(World, "a", fixed_arr_n_elem).idx = 0
                 /\ Contents(World, "a") = ref["a"]

\* the Deque started empty and the last of fixed_arr_n_elem + 1 push_back
\* calls has just completed
C11_Witness ==
    /\ init = << >> /\ status = "ok" /\ lastOp.op = "push_back"
    /\ nPop["a"] = 0 /\ nPushFront = 0 /\ nPush["a"] = fixed_arr_n_elem + 1
    /\ dq["a"].buffer.size_ = 2

\* the live segments
Segments(W) == {a \in Addr : W.heap[a].st = "live"}

\* C12: a write through operator[](i), i < size(), completes; reading
\* operator[](i) then gives the written value; the value at every other
\* index, size(), the boundary offsets, the ring of handles and the set of
\* segments are as before the write.
C12_WriteThenRead ==
    [][lastOp'.op = "write" =>
          LET d == lastOp'.d
              i == lastOp'.i
          IN /\ status' = "ok"
             /\ Deref(World', index(World', d, i)) = lastOp'.v
             /\ \A j \in 0..(size(World, d) - 1) :
                   j # i => Deref(World', index(World', d, j)) = Deref(World, index(World, d, j))
             /\ dq' = dq
             /\ pool' = pool
             /\ Segments(World') = Segments(World)]_vars

\* a write changed the value of an element stored past the head segment,
\* after pops at the front
C12_Witness ==
    /\ status = "ok" /\ lastOp.op = "write"
    /\ nPopFront > 0
    /\ lastOp.i >= fixed_arr_n_elem - dq["a"].first_idx
    /\ dq["a"].buffer.size_ >= 2

MisuseOps == {"pop_back_empty", "pop_front_empty", "front_empty", "back_empty", "index_past"}

\* C13: pop_back(), pop_front(), front() and back() on an empty Deque and
\* operator[](i) with i >= size() stop at an assertion, and size_, the
\* boundary offsets, the ring of handles, the allocator and the segments are
\* as before the call.
C13_PreconditionFailures ==
    [][lastOp'.op \in MisuseOps =>
          /\ status' = "abort"
          /\ dq' = dq
          /\ pool' = pool
          /\ heap' = heap]_vars

\* back() was called on a Deque that pops had emptied while its tail offset
\* is inside a segment
C13_Witness ==
    /\ status = "abort" /\ lastOp.op = "back_empty"
    /\ nPop["a"] > 0 /\ dq["a"].last_idx \in 1..fixed_arr_n_elem
    /\ dq["a"].buffer.size_ > 0

\* C14: in every state of a Deque, the freshly constructed one included,
\* 0 <= first_idx < fixed_arr_n_elem and 0 < last_idx <= fixed_arr_n_elem.
C14_OffsetRanges ==
    Usable("a") =>
        /\ 0 <= dq["a"].first_idx /\ dq["a"].first_idx < fixed_arr_n_elem
        /\ 0 < dq["a"].last_idx /\ dq["a"].last_idx <= fixed_arr_n_elem

\* the slots in which the stored elements were constructed
Occupied(d) == {locs[d][i] : i \in 1..Len(locs[d])}

\* the slots the boundary offsets and the ring of handles describe as
\* occupied: [first_idx, last_idx) of the only segment, or the head segment
\* from first_idx, every slot of the interior segments, and the tail segment
\* up to last_idx
Layout(W, d) ==
    LET q == W.dq[d]
        b == q.buffer
        k == b.size_
    IN IF k = 1
       THEN {<<CB_front(b).ptr, j>> : j \in q.first_idx..(q.last_idx - 1)}
       ELSE {<<CB_front(b).ptr, j>> : j \in q.first_idx..(fixed_arr_n_elem - 1)}
            \cup {<<CB_at(b, m).ptr, j>> : m \in 1..(k - 2), j \in 0..(fixed_arr_n_elem - 1)}
            \cup {<<CB_back(b).ptr, j>> : j \in 0..(q.last_idx - 1)}

\* C15: the occupied slots are exactly [first_idx, last_idx) of the only
\* segment when the ring holds one segment (so first_idx <= last_idx), and
\* otherwise [first_idx, fixed_arr_n_elem) of the head segment, every slot of
\* each interior segment and [0, last_idx) of the tail segment.
C15_OccupiedSlots ==
    Usable("a") =>
        /\ dq["a"].buffer.size_ = 1 => dq["a"].first_idx <= dq["a"].last_idx
        /\ Occupied("a") = Layout(World, "a")

\* C16: size() is the number of occupied slots: last_idx - first_idx when
\* the ring holds one segment, and (fixed_arr_n_elem - first_idx) +
\* (k - 2) * fixed_arr_n_elem + last_idx when it holds k >= 2 segments.
C16_SizeFromLayout ==
    Usable("a") =>
        LET q == dq["a"]
            k == q.buffer.size_
        IN /\ size(World, "a") = Cardinality(Occupied("a"))
           /\ k = 1 => size(World, "a") = q.last_idx - q.first_idx
           /\ k >= 2 => size(World, "a") =
                           (fixed_arr_n_elem - q.first_idx) + (k - 2) * fixed_arr_n_elem + q.last_idx

\* pops at both ends left a Deque of at least three segments whose head and
\* tail segments are partly occupied
C16_Witness ==
    /\ Usable("a") /\ dq["a"].buffer.size_ >= 3
    /\ nPopFront > 0 /\ nPop["a"] > nPopFront
    /\ dq["a"].first_idx > 0 /\ dq["a"].last_idx < fixed_arr_n_elem

\* C17: between operations, when the ring holds more than one segment, every
\* segment in it, the head and the tail included, holds at least one stored
\* element.
C17_NoEmptySegment ==
    (Usable("a") /\ dq["a"].buffer.size_ > 1) =>
        \A m \in 0..(dq["a"].buffer.size_ - 1) :
            \E s \in Occupied("a") : s[1] = CB_at(dq["a"].buffer, m).ptr

\* C18: for a CircularBuffer built with any capacity >= 1 and any sequence
\* of pushes and pops at both ends (pops only when non-empty), size(), the
\* values at indices 0 .. size()-1, front(), back() and the value every pop
\* returns are those of the reference double-ended sequence.
C18_RingBehavesLikeReference ==
    /\ rb.size_ = Len(rref)
    /\ \A i \in 1..Len(rref) : CB_at(rb, i - 1).ptr = rref[i]
    /\ rref # << >> => /\ CB_front(rb).ptr = rref[1]
                       /\ CB_back(rb).ptr = rref[Len(rref)]
    /\ rop.op \in Pops => rret = rop.v

\* a pop has just made the buffer shrink from twice the minimum capacity,
\* after pushes at the front, and elements are still stored
C18_Witness ==
    /\ rop.op \in Pops /\ rop.cap = 2 * min_cap /\ rb.capacity_ = min_cap
    /\ rb.size_ > 0
    /\ rref[1] > rref[Len(rref)]

\* C19: 0 <= size() <= capacity(), begin_pos < capacity(), and the slots
\* that hold an element are exactly (begin_pos + i) mod capacity() for
\* 0 <= i < size(), element i of the reference sequence being in slot
\* (begin_pos + i) mod capacity().
C19_RingLayout ==
    /\ 0 <= rb.size_ /\ rb.size_ <= rb.capacity_
    /\ 0 <= rb.begin_pos /\ rb.begin_pos < rb.capacity_
    /\ \A p \in 0..(rb.capacity_ - 1) :
          (rb.data[p] # NoSlot) <=>
              (\E i \in 0..(rb.size_ - 1) : p = (rb.begin_pos + i) % rb.capacity_)
    /\ \A i \in 0..(rb.size_ - 1) :
          rb.data[(rb.begin_pos + i) % rb.capacity_].ptr = rref[i + 1]

\* a push_front has just stored an element while the elements wrap around
\* the end of the storage, after a pop
C19_Witness ==
    /\ rop.op = "push_front" /\ Len(rref) < rn
    /\ rb.begin_pos + rb.size_ > rb.capacity_
    /\ rb.size_ >= 3

\* the elements a push found are, after it, in slots 0 .. size-1 in order
RingRepacked == \A i \in 0..(rb.size_ - 1) : rb'.data[i] = CB_at(rb, i)

\* the elements a push found are, after it, in the slots they were in
RingKept == \A p \in 0..(rb.capacity_ - 1) : rb.data[p] # NoSlot => rb'.data[p] = rb.data[p]

\* C20 as stated: a push repacks exactly when size() = capacity() before it,
\* and then the capacity becomes twice the capacity before; a push with
\* size() < capacity() leaves the capacity and the slots of the elements
\* unchanged.
C20_GrowDoubles ==
    [][rop'.op \in Pushes =>
          IF rb.size_ = rb.capacity_
          THEN rb'.capacity_ = 2 * rb.capacity_ /\ RingRepacked
          ELSE rb'.capacity_ = rb.capacity_ /\ RingKept]_vars

\* C20, amended: a push repacks exactly when size() = capacity() before it,
\* and then the capacity becomes max(2 * capacity, min_cap): twice the
\* capacity before, but never less than the minimum capacity; a push with
\* size() < capacity() leaves the capacity and the slots of the elements
\* unchanged.
C20_GrowDoublesAboveFloor ==
    [][rop'.op \in Pushes =>
          IF rb.size_ = rb.capacity_
          THEN rb'.capacity_ = Max(2 * rb.capacity_, min_cap) /\ RingRepacked
          ELSE rb'.capacity_ = rb.capacity_ /\ RingKept]_vars

\* a push_front on a full buffer of the minimum capacity has just doubled it
C20_Witness ==
    /\ rop.op = "push_front" /\ rop.cap = min_cap /\ rb.capacity_ = 2 * min_cap
    /\ rb.size_ = min_cap + 1 /\ rb.begin_pos = rb.capacity_ - 1

\* the elements a pop left are, after it, in slots 0 .. size() - 1 in their
\* logical order
RingPopRepacked ==
    \A i \in 0..(rb'.size_ - 1) :
        rb'.data[i] = CB_at(rb, IF rop'.op = "pop_front" THEN i + 1 ELSE i)

\* the elements a pop left are, after it, in the slots they were in
RingPopKept ==
    /\ rb'.size_ = rb.size_ - 1
    /\ \A p \in 0..(rb.capacity_ - 1) : rb'.data[p] # NoSlot => rb'.data[p] = rb.data[p]

\* C21: a pop on the ring buffer repacks into a smaller backing store
\* exactly when the size after the removal is below a quarter of the
\* capacity and the capacity is above the minimum capacity 8; the new
\* capacity is then max(capacity / 2, 8); otherwise the capacity is
\* unchanged.
C21_ShrinkHalves ==
    [][rop'.op \in Pops =>
          IF rb.size_ - 1 < rb.capacity_ \div 4 /\ rb.capacity_ > min_cap
          THEN rb'.capacity_ = Max(rb.capacity_ \div 2, min_cap) /\ RingPopRepacked
          ELSE rb'.capacity_ = rb.capacity_ /\ RingPopKept]_vars

\* a pop has just shrunk a buffer of capacity 10 to the minimum capacity,
\* with an element left in it
C21_Witness ==
    /\ rop.op \in Pops /\ rop.cap = min_cap + 2
    /\ rb.capacity_ = min_cap /\ rb.size_ = 1 /\ rb.begin_pos = 0

\* K pushes and then only pops have left fewer than K / 4 elements
RoundTrip == rrun.shape = "pops" /\ 4 * Len(rref) < rn

\* every element in the buffer reads by index as the reference sequence has it
RingReads == \A i \in 1..Len(rref) : CB_at(rb, i - 1).ptr = rref[i]

\* C22 as stated: for any K >= 1, K pushes and then pops until fewer than
\* K / 4 elements remain leave the capacity smaller than it was after the K
\* pushes, the capacity is never below the minimum capacity 8 in any state,
\* and every remaining element reads correctly by index.
C22_ShrinkRoundTrip ==
    /\ rb.capacity_ >= min_cap
    /\ RoundTrip => rb.capacity_ < rrun.cap /\ RingReads

\* C22, amended: K pushes and then pops until fewer than K / 4 elements
\* remain leave the capacity smaller than it was after the K pushes when
\* that capacity was above the minimum capacity 8 and a multiple of 4, and
\* leave it unchanged when it was at most 8; the capacity is never below
\* the smaller of 8 and the capacity the buffer was built with; every
\* remaining element reads correctly by index.
C22_ShrinkRoundTripAboveFloor ==
    /\ rb.capacity_ >= min_cap \/ rb.capacity_ = rrun.cap0
    /\ RoundTrip =>
          /\ rrun.cap > min_cap /\ rrun.cap % 4 = 0 => rb.capacity_ < rrun.cap
          /\ rrun.cap <= min_cap => rb.capacity_ = rrun.cap
          /\ RingReads

\* nine pushes took the capacity to 16, and pops from the front have left
\* two elements in a buffer shrunk to the minimum capacity
C22_Witness ==
    /\ RoundTrip /\ rn = min_cap + 1 /\ rrun.cap = 2 * min_cap
    /\ rop.op = "pop_front" /\ Len(rref) = 2 /\ rb.capacity_ = min_cap

\* C23: in every grow or shrink repack the object left in an element's old
\* slot is destroyed after the element was move-constructed into its new
\* slot, so no backing store is discarded with an object in it that was
\* constructed there and not destroyed.
C23_RepackDestroysOld == rt.abandoned = 0

\* C24: once a buffer into which n elements were emplaced, with whatever
\* grow repacks that took and no pop, has been destroyed, the element
\* type's non-move constructor has run exactly n times and its destructor
\* exactly n times.
C24_TrackerCounts ==
    rop.op = "destroy" /\ rrun.shape = "pushes" =>
        rt.constructed = rn /\ rt.destructed = rn

\* a buffer that grew from the minimum capacity with nine elements
\* emplaced has been destroyed
C24_Witness ==
    /\ rop.op = "destroy" /\ rrun.shape = "pushes"
    /\ rn = min_cap + 1 /\ rrun.cap0 = min_cap /\ rrun.cap = 2 * min_cap
    /\ rt.abandoned = min_cap

\* the elements an iteration from begin() to end() visits
RingWalk == RB_WalkFrom(rb, RB_begin(rb), rb.capacity_ + 1)

\* C25: iterating the ring buffer from begin() to end() visits exactly
\* size() positions and the k-th position dereferences to the element
\* operator[](k) gives, also when the occupied range wraps around the end of
\* the storage and after repacks; an iterator captured at logical index i
\* before an operation that repacks denotes afterwards the element then at
\* logical index i.
C25_RingIteration ==
    /\ [](RingWalk = [k \in 1..rb.size_ |-> CB_at(rb, k - 1)])
    /\ [][rb'.capacity_ # rb.capacity_ =>
            \A i \in 0..(rb.size_ - 1) :
                i < rb'.size_ => RB_deref(rb', [index |-> i]).ptr = rref'[i + 1]]_vars

\* a buffer that was built with capacity 1 and repacked holds elements
\* whose occupied range wraps around the end of the storage
C25_Witness ==
    /\ rrun.cap0 = 1 /\ rb.capacity_ = min_cap /\ rop.op = "push_back"
    /\ rb.size_ >= 3 /\ rb.begin_pos + rb.size_ > rb.capacity_

\* C26: an acquire on the pool takes the most recently released idle block
\* when the idle set is non-empty and a fresh block only when it is empty;
\* one T is constructed in the block returned, and the block is no longer
\* in the idle set.
C26_AcquireTakesLastReleased ==
    [][pol'.op = "allocate" =>
          LET c == pool["a"].cache
              ptr == pol'.ptr
          IN /\ IF c # << >>
                THEN ptr = c[Len(c)] /\ pool'["a"].cache = SubSeq(c, 1, Len(c) - 1)
                ELSE heap[ptr].st = "free" /\ pool'["a"].cache = << >>
             /\ pol.op = "release" /\ heap[pol.ptr].st = "idle" => ptr = pol.ptr
             /\ heap'[ptr] = NewFixedArray
             /\ \A i \in 1..Len(pool'["a"].cache) : pool'["a"].cache[i] # ptr]_vars

\* an acquire has just taken a block from an idle set that held two, while
\* the client held another block
C26_Witness ==
    /\ pol.op = "allocate" /\ pol.ptr \in pheld /\ Cardinality(pheld) = 2
    /\ Len(pool["a"].cache) = 1 /\ heap[pol.ptr] = NewFixedArray

\* C27: a release stores the block in the idle set if and only if the idle
\* set holds fewer blocks than the maximum retained count; otherwise the
\* block is freed and the idle set is unchanged.
C27_ReleaseRetainsBelowMax ==
    [][pol'.op = "release" =>
          LET c == pool["a"].cache
              ptr == pol'.ptr
          IN IF Len(c) < pool["a"].max_reserve
             THEN pool'["a"].cache = Append(c, ptr) /\ heap'[ptr].st = "idle"
             ELSE pool'["a"].cache = c /\ heap'[ptr].st = "free"]_vars

\* a release has just freed a block because the idle set held the maximum
\* retained count of two
C27_Witness ==
    /\ pol.op = "release" /\ heap[pol.ptr].st = "free"
    /\ pool["a"].max_reserve = 2 /\ Len(pool["a"].cache) = 2

\* C28: the number of idle blocks is at most the maximum retained count in
\* every state, from construction on, whatever the initial reserve and the
\* maximum retained count are.
C28_IdleWithinMax == pool["a"].alive => Len(pool["a"].cache) <= pool["a"].max_reserve

\* C29: no destructor of T runs on a block that holds no live object: not on
\* an idle block, not on a reserved block never handed out, not a second
\* time when a release frees the block, not when the pool is torn down.
C29_NoDestructorWithoutObject == ~dtor_on_idle

\* C30: a Deque always owns at least one segment: in every state reached by
\* pushes and by pops on a non-empty Deque its ring of segment handles is
\* non-empty, and a push, also one after pops have emptied the Deque,
\* succeeds and stores the element.
C30_AlwaysOwnsSegment ==
    /\ "a" \notin gone /\ dq["a"].alive => dq["a"].buffer.size_ >= 1
    /\ lastOp.op \in Pushes /\ lastOp.d = "a" =>
          /\ status = "ok"
          /\ dq["a"].size_ = Len(ref["a"])

\* C31: a pop_back that makes last_idx reach 0 removes the tail handle from
\* the ring, returns that segment to the pool and sets last_idx to
\* fixed_arr_n_elem, the new tail being the previous segment, occupied up to
\* its last slot; a pop_front that makes first_idx reach fixed_arr_n_elem
\* removes the head handle and sets first_idx to 0, the new head being the
\* next segment.
C31_SegmentRemoval ==
    [][/\ (lastOp'.op = "pop_back" /\ lastOp'.d = "a" /\ status' = "ok"
            /\ dq["a"].last_idx = 1) =>
              LET b == dq["a"].buffer
                  b2 == dq'["a"].buffer
              IN /\ b2.size_ = b.size_ - 1
                 /\ heap'[CB_back(b).ptr].st = "idle"
                 /\ dq'["a"].last_idx = fixed_arr_n_elem
                 /\ b2.size_ >= 1
                 /\ CB_back(b2) = CB_at(b, b.size_ - 2)
                 /\ <<CB_back(b2).ptr, fixed_arr_n_elem - 1>> \in Occupied("a")'
       /\ (lastOp'.op = "pop_front" /\ lastOp'.d = "a" /\ status' = "ok"
            /\ dq["a"].first_idx = fixed_arr_n_elem - 1) =>
              LET b == dq["a"].buffer
                  b2 == dq'["a"].buffer
              IN /\ b2.size_ = b.size_ - 1
                 /\ heap'[CB_front(b).ptr].st = "idle"
                 /\ dq'["a"].first_idx = 0
                 /\ b2.size_ >= 1
                 /\ CB_front(b2) = CB_at(b, 1)
                 /\ <<CB_front(b2).ptr, 0>> \in Occupied("a")']_vars

\* C32: push_back acquires a segment from the pool exactly when last_idx =
\* fixed_arr_n_elem before the call, push_front exactly when first_idx = 0
\* before the call; every other push, and every call of operator[], front
\* and back, leaves the set of segments, the ring of handles with its
\* capacity and the pool's idle blocks unchanged.
C32_PushAcquiresAtBoundary ==
    [][/\ lastOp'.op = "push_back" =>
             (Segments(World') # Segments(World) <=> dq["a"].last_idx = fixed_arr_n_elem)
       /\ lastOp'.op = "push_front" =>
             (Segments(World') # Segments(World) <=> dq["a"].first_idx = 0)
       /\ lastOp'.op \in Pushes /\ Segments(World') # Segments(World) =>
             /\ Cardinality(Segments(World')) = Cardinality(Segments(World)) + 1
             /\ Segments(World) \subseteq Segments(World')
       /\ (\/ lastOp'.op \in Pushes /\ Segments(World') = Segments(World)
           \/ lastOp'.op \in {"write", "front_empty", "back_empty", "index_past"}) =>
             /\ Segments(World') = Segments(World)
             /\ dq'["a"].buffer = dq["a"].buffer
             /\ pool' = pool]_vars

\* C33: every segment handle a Deque holds, also after the Deque was
\* move-constructed or move-assigned from another one, releases its block
\* to the pool of the Deque that holds it, never to the pool object of the
\* moved-from source.
C33_HandlesReleaseToOwnPool ==
    \A d \in Deques :
        dq[d].alive /\ dq[d].buffer.has_data =>
            \A i \in 0..(dq[d].buffer.size_ - 1) : CB_at(dq[d].buffer, i).del = d

\* C34: a move assignment into a Deque that owns segments releases every
\* segment the target owned, so no block is left that nothing will free,
\* and once every Deque and its pool have been destroyed no block obtained
\* from the system allocator remains allocated.
C34_MoveAssignReleasesTarget ==
    /\ \A a \in Addr : heap[a].st # "leaked"
    /\ (status = "ok" /\ \A d \in Deques : ~dq[d].alive) =>
          \A a \in Addr : heap[a].st = "free"

\* C35: the links of the segments mirror the order of the ring: for adjacent
\* ring entries a, b the link a.next is b and b.prev is a, the prev link of
\* the head segment and the next link of the tail segment are null, and no
\* link of a segment of the Deque refers to a segment returned to the pool.
C35_LinksMirrorRing ==
    (Usable("a") /\ dq["a"].buffer.size_ >= 1) =>
        LET b == dq["a"].buffer
            k == b.size_
        IN /\ \A i \in 0..(k - 2) :
                 /\ heap[CB_at(b, i).ptr].next = CB_at(b, i + 1).ptr
                 /\ heap[CB_at(b, i + 1).ptr].prev = CB_at(b, i).ptr
           /\ heap[CB_front(b).ptr].prev = Null
           /\ heap[CB_back(b).ptr].next = Null
           /\ \A i \in 0..(k - 1) :
                 \A l \in {heap[CB_at(b, i).ptr].next, heap[CB_at(b, i).ptr].prev} :
                     l # Null => heap[l].st = "live"

\* The ring-buffer slots of live Deques that hold a handle to block a.
SlotsOwning(a) ==
    {s \in Deques \X (0..(MaxSeg - 1)) :
        /\ dq[s[1]].alive /\ dq[s[1]].buffer.has_data
        /\ s[2] < dq[s[1]].buffer.size_
        /\ CB_at(dq[s[1]].buffer, s[2]).ptr = a}

\* C36: while the program runs, no block is both cached by a live allocator
\* and owned by a live handle, no block is cached twice, no two live handles
\* refer to the same block, and every segment that holds a FixedArray is owned
\* by exactly one handle: one ring-buffer slot of a Deque, or one handle of
\* the allocator's client.
C36_TreeShapedOwnership ==
    status = "ok" =>
        /\ \A p \in Deques : pool[p].alive =>
              /\ \A i, j \in 1..Len(pool[p].cache) :
                    i # j => pool[p].cache[i] # pool[p].cache[j]
              /\ \A i \in 1..Len(pool[p].cache) :
                    /\ pool[p].cache[i] \notin pheld
                    /\ SlotsOwning(pool[p].cache[i]) = {}
        /\ \A a \in Addr :
              /\ Cardinality(SlotsOwning(a)) + (IF a \in pheld THEN 1 ELSE 0) <= 1
              /\ heap[a].st \in {"live", "leaked"} =>
                    Cardinality(SlotsOwning(a)) + (IF a \in pheld THEN 1 ELSE 0) = 1


\* The operation before this state was a push or a pop that repacked the buffer.
RingJustRepacked == rop.op \in Pushes \cup Pops /\ rop.cap # rb.capacity_

\* C37: whatever capacity the buffer was built with, the push or pop that
\* follows a push that grew the buffer or a pop that shrank it leaves
\* capacity() unchanged.
C37_NoConsecutiveRepack ==
    [][RingJustRepacked /\ rop'.op \in Pushes \cup Pops => rb'.capacity_ = rb.capacity_]_vars

\* C37 amended: the operation after a growing push never repacks, nor does a
\* push after a shrinking pop; a pop after a shrinking pop leaves capacity()
\* unchanged when the buffer was built with a capacity of at most
\* 2 * min_cap + 1.
C37_NoConsecutiveRepack_Amended ==
    [][/\ RingJustRepacked
       /\ rop'.op \in Pushes \cup Pops
       /\ (rop.op \in Pushes \/ rop'.op \in Pushes \/ rrun.cap0 <= 2 * min_cap + 1)
       => rb'.capacity_ = rb.capacity_]_vars

\* min_cap + 1 pushes on a default buffer, the last of which grew it, then a pop
C37_Witness ==
    /\ rrun.shape = "pops" /\ rrun.cap0 = min_cap
    /\ rn = min_cap + 1 /\ Len(rref) = min_cap
    /\ rop.op \in Pops /\ rop.cap = 2 * min_cap /\ rb.capacity_ = 2 * min_cap


\* C38: a copy assignment x = y from another Vector leaves x with the size
\* and the elements of y and leaves y as it was, without moving, reading or
\* writing outside the storage it allocates and without touching a destroyed
\* element; x = x changes nothing; a write to an element of x after the
\* assignment does not change y.
C38_CopyAssignment ==
    [][/\ vna' # vna =>
            IF vop'.x = vop'.y THEN vec' = vec /\ vub' = vub
            ELSE /\ vub' = {}
                 /\ vec'[vop'.x].size_ = vec[vop'.y].size_
                 /\ \A i \in 0..(vec[vop'.y].size_ - 1) :
                       vec'[vop'.x].data[i] = [st |-> "live", v |-> vec[vop'.y].data[i].v]
                 /\ vec'[vop'.y] = vec[vop'.y]
       /\ vop'.op = "write" /\ vop'.x # vop'.y => vec'[vop'.y] = vec[vop'.y]]_vars

====
